---- MODULE Spec2Model ----
(***************************************************************************)
(* Calcium-carbonate surface generation: SurfaceGen.save_slabs /           *)
(* create_pdb / pdb_clean of                                               *)
(* src/initial-structure/calcium-carbonate-crystal/generation/python/src/  *)
(* surface.py, as a state machine over one structure at a time.            *)
(*                                                                         *)
(* A structure is nC carbons (name "C"), nO oxygens (name "O"), nCa        *)
(* calciums (name "CA") and nX atoms of any other name, each kind indexed  *)
(* 1.. in file order.  Every atom carries its own residue record, so       *)
(* "name OX1 and resname CRB" selects the oxygens, "name CX1 and resname   *)
(* CRB" the carbons and "resname CA" the calciums.  Coordinates are real   *)
(* numbers in the program; the model keeps what the control flow reads of  *)
(* them: the result of each "around 1.3" query (drawn when the query is    *)
(* made), how each oxygen's position was obtained, and the outcome of the  *)
(* final uniqueness test.                                                  *)
(***************************************************************************)
EXTENDS Integers, FiniteSets, Sequences, TLC

\* ---- bounds of the model
MaxC == 3
MaxO == 6
MaxCa == 2
MaxX == 1
\* the atoms of one structure
MaxRecords == 9

\* ---- program constants
\* bonds of a complete carbonate carbon (len(carbon.bonded_atoms) == 3)
NFull == 3
\* first residue id handed to a carbon (idx_resid_c = 1)
FirstResidC == 1
\* residue id of an atom as read from the file (no residue assigned yet)
FileResid == 0

VARIABLES
    pc,          \* position in save_slabs / create_pdb / pdb_clean
    nC, nO, nCa, nX,   \* atoms of the structure being processed
    bonds,       \* set of <<oxygen, carbon>> pairs (u.add_bonds)
    bonds0,      \* history: the bonds when existing-bond detection finished
    ambiguous,   \* history: some "around 1.3" query returned more than one carbon
    pos,         \* per oxygen: "file" (as read), "rot" (line 459), "sum" (line 439)
    surf_norm,   \* 0 = None, else the carbon the reference normal was taken from
    oi,          \* index of the oxygen the running loop is at
    residC, residO, residCa,   \* residue id per carbon / oxygen / calcium
    files,       \* files of this structure on disk: "cif", "pdb", "error"
    cond,        \* the exception raised for this structure, "none" if none
    warned,      \* warnings.warn was called for this structure
    finalWritten, \* the final (non-error) u.atoms.write of pdb_clean was done
    dupCoords,   \* two rows of u.atoms.positions are equal (as read at line 518)
    crystalExists, \* self.crystal_file.exists() for the SurfaceGen being run
    built,       \* the unit cell and the slabs of this SurfaceGen are built
    lines,       \* the lines of <name>.pdb as read back at line 541
    out,         \* the lines of <name>.pdb as rewritten at lines 561-567
    near,        \* the carbons the last "around 1.3" query returned (line 370)
    nearest,     \* the carbon with fewer than 3 bonds nearest to the oxygen
                 \* attached last (minimum image), 0 when none was attached
    ndx,         \* TwoSlabIdxGenerator.ndx: index group name -> indices
    ndx0,        \* history: ndx as read by the constructor
    n_atoms,     \* TwoSlabIdxGenerator.n_atoms
    n_crystal_atoms,   \* TwoSlabIdxGenerator.n_crystal_atoms
    n_replica,   \* ParseGmxLog.n_replica
    line,        \* the fields of the line given to _parse_repl_pr
    lst_complete \* the list _parse_repl_pr builds and returns

vars == <<pc, nC, nO, nCa, nX, bonds, bonds0, ambiguous, pos, surf_norm, oi,
          residC, residO, residCa, files, cond, warned, finalWritten,
          dupCoords, crystalExists, built, lines, out, near, nearest,
          ndx, ndx0, n_atoms, n_crystal_atoms, n_replica, line, lst_complete>>

\* the variables of the reorder step
recVars == <<lines, out>>

\* the variables of TwoSlabIdxGenerator and of ParseGmxLog
idxVars == <<ndx, ndx0, n_atoms, n_crystal_atoms>>
logVars == <<n_replica, line, lst_complete>>
toolVars == <<idxVars, logVars>>

Carbons == 1..nC
Oxygens == 1..nO
Calciums == 1..nCa

Min(S) == CHOOSE x \in S : \A y \in S : x <= y
Max(S) == CHOOSE x \in S : \A y \in S : x >= y

\* carbon.bonded_atoms / oxygen.bonded_atoms under bond set b
BondedAtoms(b, c) == {o \in 1..MaxO : <<o, c>> \in b}
OxygenBonds(b, o) == {c \in 1..MaxC : <<o, c>> \in b}
NBonds(b, c) == Cardinality(BondedAtoms(b, c))

NoBonds == {}
FilePos == [o \in 1..MaxO |-> "file"]
NoResidC == [c \in 1..MaxC |-> FileResid]
NoResidO == [o \in 1..MaxO |-> FileResid]
NoResidCa == [k \in 1..MaxCa |-> FileResid]

\* no index file and no log line is being processed
NoGroups == [g \in {"System", "Crystal", "SOL"} |-> << >>]
ToolsIdle ==
    /\ ndx = NoGroups /\ ndx0 = NoGroups
    /\ n_atoms = 0 /\ n_crystal_atoms = 0
    /\ n_replica = 0 /\ line = << >> /\ lst_complete = << >>

Init ==
    /\ pc = "main"
    /\ nC = 0 /\ nO = 0 /\ nCa = 0 /\ nX = 0
    /\ bonds = NoBonds /\ bonds0 = NoBonds /\ ambiguous = FALSE
    /\ pos = FilePos
    /\ surf_norm = 0
    /\ oi = 1
    /\ residC = NoResidC /\ residO = NoResidO /\ residCa = NoResidCa
    /\ files = {}
    /\ cond = "none"
    /\ warned = FALSE
    /\ finalWritten = FALSE
    /\ dupCoords = FALSE
    /\ crystalExists = TRUE
    /\ built = FALSE
    /\ lines = << >>
    /\ out = << >>
    /\ near = {}
    /\ nearest = 0
    /\ ToolsIdle

\* script.py main, lines 88-129: the next polymorph/orientation(/size)
\* combination; a SurfaceGen is made for its crystal file, which may exist or
\* not, and run() is called
StartRun ==
    /\ pc = "main"
    /\ \E e \in BOOLEAN : crystalExists' = e
    /\ pc' = "run"
    /\ UNCHANGED <<nC, nO, nCa, nX, bonds, bonds0, ambiguous, pos, surf_norm, oi,
                   residC, residO, residCa, files, cond, warned, finalWritten,
                   dupCoords, built, recVars,
                   near, nearest, toolVars>>

\* a check of run() that lets every crystal file pass
AnyFileExists(e) == TRUE

\* run line 215: self.crystal_file.exists()
CrystalFileExists(e) == e

\* run lines 215-216: FileNotFoundError is raised; neither run nor main
\* catches it, so it leaves main
FileNotFound ==
    /\ pc = "run"
    /\ ~CrystalFileExists(crystalExists)
    /\ cond' = "FileNotFoundError"
    /\ pc' = "aborted"
    /\ UNCHANGED <<nC, nO, nCa, nX, bonds, bonds0, ambiguous, pos, surf_norm, oi,
                   residC, residO, residCa, files, warned, finalWritten,
                   dupCoords, crystalExists, built, recVars,
                   near, nearest, toolVars>>

\* run lines 218-220: the unit cell and the slabs are built, save_slabs starts
BuildSlabs ==
    /\ pc = "run"
    /\ CrystalFileExists(crystalExists)
    /\ built' = TRUE
    /\ pc' = "loop"
    /\ UNCHANGED <<nC, nO, nCa, nX, bonds, bonds0, ambiguous, pos, surf_norm, oi,
                   residC, residO, residCa, files, cond, warned, finalWritten,
                   dupCoords, crystalExists, recVars,
                   near, nearest, toolVars>>

\* save_slabs line 289 has no slab left: save_slabs and run return to main,
\* the SurfaceGen of this combination is dropped
RunDone ==
    /\ pc = "loop"
    /\ built' = FALSE
    /\ crystalExists' = TRUE
    /\ pc' = "main"
    /\ UNCHANGED <<nC, nO, nCa, nX, bonds, bonds0, ambiguous, pos, surf_norm, oi,
                   residC, residO, residCa, files, cond, warned, finalWritten,
                   dupCoords, recVars,
                   near, nearest, toolVars>>

\* save_slabs loop body, lines 290-300: the next slab's supercell is written
\* as <name>.cif; its atoms are the input of this iteration
SaveSlab ==
    /\ pc = "loop"
    /\ \E c \in 0..MaxC, o \in 0..MaxO, k \in 0..MaxCa, x \in 0..MaxX :
          /\ c + o + k + x <= MaxRecords
          /\ nC' = c /\ nO' = o /\ nCa' = k /\ nX' = x
    /\ files' = {"cif"}
    /\ pc' = "convert"
    /\ UNCHANGED <<bonds, bonds0, ambiguous, pos, surf_norm, oi,
                   residC, residO, residCa, cond, warned, finalWritten,
                   dupCoords, crystalExists, built, recVars,
                   near, nearest, toolVars>>

\* cif_to_pdb: OpenBabel writes <name>.pdb, CONECT lines are stripped
CifToPdb ==
    /\ pc = "convert"
    /\ files' = files \cup {"pdb"}
    /\ pc' = "name"
    /\ UNCHANGED <<nC, nO, nCa, nX, bonds, bonds0, ambiguous, pos, surf_norm, oi,
                   residC, residO, residCa, cond, warned, finalWritten,
                   dupCoords, crystalExists, built, recVars,
                   near, nearest, toolVars>>

\* pdb_clean lines 333-362: load the universe, set record type, rename atoms.
\* An atom named neither "C", "O" nor "CA" raises ValueError BEFORE the try
\* block of line 364, so the exception leaves pdb_clean, create_pdb (skipping
\* os.remove of the .cif), save_slabs, run and main.
SetNames ==
    /\ pc = "name"
    /\ nX = 0
    /\ oi' = 1
    /\ pc' = "detect"
    /\ UNCHANGED <<nC, nO, nCa, nX, bonds, bonds0, ambiguous, pos, surf_norm,
                   residC, residO, residCa, files, cond, warned, finalWritten,
                   dupCoords, crystalExists, built, recVars,
                   near, nearest, toolVars>>

UnknownAtomName ==
    /\ pc = "name"
    /\ nX > 0
    /\ cond' = "UnknownAtomName"
    /\ pc' = "aborted"
    /\ UNCHANGED <<nC, nO, nCa, nX, bonds, bonds0, ambiguous, pos, surf_norm, oi,
                   residC, residO, residCa, files, warned, finalWritten,
                   dupCoords, crystalExists, built, recVars,
                   near, nearest, toolVars>>

\* DetectBond without the test of line 374: nearest_carbon[0] is bonded
\* whenever the query returned some carbon
DetectBondFirst(b, o, cand) ==
    IF cand # {} THEN b \cup {<<o, Min(cand)>>} ELSE b

\* lines 370-375: the bond set after the query for oxygen o returned cand;
\* a bond is added only when exactly one carbon is within the cutoff
DetectBond(b, o, cand) ==
    IF Cardinality(cand) = 1 THEN b \cup {<<o, c>> : c \in cand} ELSE b

\* lines 369-375, one iteration: oxygen oi, cand = the carbons within 1.3
DetectOxygen ==
    /\ pc = "detect"
    /\ oi <= nO
    /\ \E cand \in SUBSET Carbons :
          /\ bonds' = DetectBond(bonds, oi, cand)
          /\ ambiguous' = (ambiguous \/ Cardinality(cand) > 1)
          /\ near' = cand
    /\ bonds0' = bonds'
    /\ oi' = oi + 1
    /\ UNCHANGED <<pc, nC, nO, nCa, nX, pos, surf_norm,
                   residC, residO, residCa, files, cond, warned, finalWritten,
                   dupCoords, crystalExists, built, recVars,
                   nearest, toolVars>>

\* FirstFullCarbon without the break of line 401: the last carbon with 3
\* bonds sets the normal
LastFullCarbon(b) ==
    IF \E c \in Carbons : NBonds(b, c) = NFull
    THEN Max({c \in Carbons : NBonds(b, c) = NFull})
    ELSE 0

\* FirstFullCarbon without the test of line 381
FirstCarbonAny(b) == IF Carbons # {} THEN Min(Carbons) ELSE 0

\* lines 379-401: the first carbon (ascending) with exactly 3 bonds, 0 if none
FirstFullCarbon(b) ==
    IF \E c \in Carbons : NBonds(b, c) = NFull
    THEN Min({c \in Carbons : NBonds(b, c) = NFull})
    ELSE 0

\* lines 377-404: reference normal, or ValueError when no carbon has 3 bonds
RefPlane ==
    /\ pc = "detect"
    /\ oi = nO + 1
    /\ FirstFullCarbon(bonds) # 0
    /\ surf_norm' = FirstFullCarbon(bonds)
    /\ oi' = 1
    /\ pc' = "complete"
    /\ near' = {}
    /\ UNCHANGED <<nC, nO, nCa, nX, bonds, bonds0, ambiguous, pos,
                   residC, residO, residCa, files, cond, warned, finalWritten,
                   dupCoords, crystalExists, built, recVars,
                   nearest, toolVars>>

MissingReferencePlane ==
    /\ pc = "detect"
    /\ oi = nO + 1
    /\ FirstFullCarbon(bonds) = 0
    /\ cond' = "MissingReferencePlane"
    /\ pc' = "except"
    /\ near' = {}
    /\ UNCHANGED <<nC, nO, nCa, nX, bonds, bonds0, ambiguous, pos, surf_norm, oi,
                   residC, residO, residCa, files, warned, finalWritten,
                   dupCoords, crystalExists, built, recVars,
                   nearest, toolVars>>

\* Rule with the branch of line 417 taken for 2 bonds or more (>= 2 for == 2)
\* and the test of line 413 lost
RuleTwoOrMore(n) ==
    CASE n >= 2 -> "sum"
      [] n = 1 -> "rot"
      [] OTHER -> "raise"

\* Rule with a carbon of 3 bonds handled like one of 2 bonds (the test of
\* line 413 lost, the branch of line 417 taken for 2 and for 3 bonds)
RuleThreeAsTwo(n) ==
    CASE n = 2 \/ n = NFull -> "sum"
      [] n = 1 -> "rot"
      [] n = 0 -> "raise"
      [] OTHER -> "continue"

\* Rule with the branch of line 444 taken for 0 bonds as well (<= 1 for == 1)
RuleZeroAsOne(n) ==
    CASE n = NFull -> "continue"
      [] n = 2 -> "sum"
      [] n <= 1 -> "rot"
      [] OTHER -> "continue"

\* lines 413-467: the branch of the if/elif chain taken for a carbon with n
\* bonds; a carbon with more than 3 bonds matches no branch
Rule(n) ==
    CASE n = NFull -> "continue"
      [] n = 2 -> "sum"
      [] n = 1 -> "rot"
      [] n = 0 -> "raise"
      [] OTHER -> "continue"

\* Target with the carbons walked in descending index order
TargetDescending(b) ==
    IF \E c \in Carbons : Rule(NBonds(b, c)) # "continue"
    THEN Max({c \in Carbons : Rule(NBonds(b, c)) # "continue"})
    ELSE 0

\* lines 411-467: the inner loop over carbons stops at the first carbon whose
\* branch is not "continue"; 0 when the loop runs to its end
Target(b) ==
    IF \E c \in Carbons : Rule(NBonds(b, c)) # "continue"
    THEN Min({c \in Carbons : Rule(NBonds(b, c)) # "continue"})
    ELSE 0

\* IsFree with the test of line 408 against 3 (the carbon's count) for 0
FreeBelowFull(b, o) == Cardinality(OxygenBonds(b, o)) < NFull

\* IsFree without the test of line 408: every oxygen is taken as free
AlwaysFree(b, o) == TRUE

\* line 408: len(oxygen.bonded_atoms) == 0
IsFree(b, o) == OxygenBonds(b, o) = {}

\* lines 408-409: the oxygen already has a bond
CompleteSkip ==
    /\ pc = "complete"
    /\ oi <= nO
    /\ ~IsFree(bonds, oi)
    /\ oi' = oi + 1
    /\ nearest' = 0
    /\ UNCHANGED <<pc, nC, nO, nCa, nX, bonds, bonds0, ambiguous, pos, surf_norm,
                   residC, residO, residCa, files, cond, warned, finalWritten,
                   dupCoords, crystalExists, built, recVars,
                   near, toolVars>>

\* lines 417-461: the free oxygen is placed on the target carbon and bonded
CompletePlace ==
    /\ pc = "complete"
    /\ oi <= nO
    /\ IsFree(bonds, oi)
    /\ Target(bonds) # 0
    /\ Rule(NBonds(bonds, Target(bonds))) \in {"sum", "rot"}
    /\ pos' = [pos EXCEPT ![oi] = Rule(NBonds(bonds, Target(bonds)))]
    /\ bonds' = bonds \cup {<<oi, Target(bonds)>>}
    /\ \E c \in {d \in Carbons : NBonds(bonds, d) < NFull} : nearest' = c
    /\ oi' = oi + 1
    /\ UNCHANGED <<pc, nC, nO, nCa, nX, bonds0, ambiguous, surf_norm,
                   residC, residO, residCa, files, cond, warned, finalWritten,
                   dupCoords, crystalExists, built, recVars,
                   near, toolVars>>

\* lines 463-467: the first incomplete carbon has no bond at all
CarbonWithZeroBonds ==
    /\ pc = "complete"
    /\ oi <= nO
    /\ IsFree(bonds, oi)
    /\ Target(bonds) # 0
    /\ Rule(NBonds(bonds, Target(bonds))) = "raise"
    /\ cond' = "CarbonWithZeroBonds"
    /\ pc' = "except"
    /\ nearest' = 0
    /\ UNCHANGED <<nC, nO, nCa, nX, bonds, bonds0, ambiguous, pos, surf_norm, oi,
                   residC, residO, residCa, files, warned, finalWritten,
                   dupCoords, crystalExists, built, recVars,
                   near, toolVars>>

\* lines 411-414: every carbon is passed over, the oxygen stays free
CompleteNoCarbon ==
    /\ pc = "complete"
    /\ oi <= nO
    /\ IsFree(bonds, oi)
    /\ Target(bonds) = 0
    /\ oi' = oi + 1
    /\ nearest' = 0
    /\ UNCHANGED <<pc, nC, nO, nCa, nX, bonds, bonds0, ambiguous, pos, surf_norm,
                   residC, residO, residCa, files, cond, warned, finalWritten,
                   dupCoords, crystalExists, built, recVars,
                   near, toolVars>>

\* CarbonsComplete with the test of line 471 as == 0 for != 3
CarbonsBonded(b) == \A c \in Carbons : NBonds(b, c) # 0

\* CarbonsComplete with the test of line 471 as > 3 for != 3
CarbonsAtMostFull(b) == \A c \in Carbons : NBonds(b, c) <= NFull

\* lines 470-474: every carbon has exactly 3 bonds
CarbonsComplete(b) == \A c \in Carbons : NBonds(b, c) = NFull

\* lines 469-477: bond count check (the oxygens are renamed OX1..OX3)
CheckCarbons ==
    /\ pc = "complete"
    /\ oi = nO + 1
    /\ CarbonsComplete(bonds)
    /\ pc' = "resid"
    /\ nearest' = 0
    /\ UNCHANGED <<nC, nO, nCa, nX, bonds, bonds0, ambiguous, pos, surf_norm, oi,
                   residC, residO, residCa, files, cond, warned, finalWritten,
                   dupCoords, crystalExists, built, recVars,
                   near, toolVars>>

BondCountMismatch ==
    /\ pc = "complete"
    /\ oi = nO + 1
    /\ ~CarbonsComplete(bonds)
    /\ cond' = "BondCountMismatch"
    /\ pc' = "except"
    /\ nearest' = 0
    /\ UNCHANGED <<nC, nO, nCa, nX, bonds, bonds0, ambiguous, pos, surf_norm, oi,
                   residC, residO, residCa, files, warned, finalWritten,
                   dupCoords, crystalExists, built, recVars,
                   near, toolVars>>

\* line 481: idx_resid_ca = len(u.select_atoms("resname CA")) + 1
FirstResidCa(n) == n + 1

\* lines 483-493: the c-th carbon of the atom group takes idx_resid_c
CarbonResid(c) == FirstResidC + (c - 1)

\* lines 499-515: the k-th calcium takes idx_resid_ca
CalciumResid(k) == FirstResidCa(nCa) + (k - 1)

\* lines 496-497: an oxygen takes the residue of the carbon it is bonded to
\* (of the last such carbon in ascending order); a free oxygen keeps its own
OxygenResid(b, o) ==
    IF OxygenBonds(b, o) \cap Carbons # {}
    THEN CarbonResid(CHOOSE c \in OxygenBonds(b, o) \cap Carbons :
                        \A d \in OxygenBonds(b, o) \cap Carbons : d <= c)
    ELSE residO[o]

\* lines 479-515, the whole loop.  Bonds join an oxygen and a carbon only, so
\* the test of line 500 (a calcium with bonds) never raises.
AssignResidues ==
    /\ pc = "resid"
    /\ residC' = [c \in 1..MaxC |-> IF c \in Carbons THEN CarbonResid(c) ELSE residC[c]]
    /\ residO' = [o \in 1..MaxO |-> IF o \in Oxygens THEN OxygenResid(bonds, o) ELSE residO[o]]
    /\ residCa' = [k \in 1..MaxCa |-> IF k \in Calciums THEN CalciumResid(k) ELSE residCa[k]]
    /\ pc' = "dup"
    /\ UNCHANGED <<nC, nO, nCa, nX, bonds, bonds0, ambiguous, pos, surf_norm, oi,
                   files, cond, warned, finalWritten,
                   dupCoords, crystalExists, built, recVars,
                   near, nearest, toolVars>>

\* line 518: coords = u.atoms.positions; whether two of its rows are equal is
\* a fact of the coordinates, which the model does not hold
ReadPositions ==
    /\ pc = "dup"
    /\ \E d \in BOOLEAN : dupCoords' = d
    /\ pc' = "unique"
    /\ UNCHANGED <<nC, nO, nCa, nX, bonds, bonds0, ambiguous, pos, surf_norm, oi,
                   residC, residO, residCa, files, cond, warned, finalWritten,
                   crystalExists, built, recVars,
                   near, nearest, toolVars>>

\* HasDuplicates with the comparison of line 519 never true
NeverDuplicates(d) == FALSE

\* line 519: len(coords) != len(np.unique(coords, axis=0))
HasDuplicates(d) == d

\* lines 519-520: two rows are equal
DuplicateCoordinates ==
    /\ pc = "unique"
    /\ HasDuplicates(dupCoords)
    /\ cond' = "DuplicateCoordinates"
    /\ pc' = "except"
    /\ UNCHANGED <<nC, nO, nCa, nX, bonds, bonds0, ambiguous, pos, surf_norm, oi,
                   residC, residO, residCa, files, warned, finalWritten,
                   dupCoords, crystalExists, built, recVars,
                   near, nearest, toolVars>>

\* lines 519-520: all rows differ, the try block ends
CoordinatesUnique ==
    /\ pc = "unique"
    /\ ~HasDuplicates(dupCoords)
    /\ pc' = "write"
    /\ UNCHANGED <<nC, nO, nCa, nX, bonds, bonds0, ambiguous, pos, surf_norm, oi,
                   residC, residO, residCa, files, cond, warned, finalWritten,
                   dupCoords, crystalExists, built, recVars,
                   near, nearest, toolVars>>

\* FailFiles without the os.remove of line 523
FailFilesKeepPdb(f) == f \cup {"error"}

\* lines 523-526: <name>.pdb is removed, error_<name>.pdb is written
FailFiles(f) == (f \ {"pdb"}) \cup {"error"}

\* lines 522-528: except Exception
Except ==
    /\ pc = "except"
    /\ files' = FailFiles(files)
    /\ warned' = TRUE
    /\ pc' = "returned"
    /\ UNCHANGED <<nC, nO, nCa, nX, bonds, bonds0, ambiguous, pos, surf_norm, oi,
                   residC, residO, residCa, cond, finalWritten,
                   dupCoords, crystalExists, built, recVars,
                   near, nearest, toolVars>>

\* lines 530-537: the structure is written to <name>.pdb
WriteFinal ==
    /\ pc = "write"
    /\ files' = files \cup {"pdb"}
    /\ finalWritten' = TRUE
    /\ pc' = "reorder"
    /\ UNCHANGED <<nC, nO, nCa, nX, bonds, bonds0, ambiguous, pos, surf_norm, oi,
                   residC, residO, residCa, cond, warned,
                   dupCoords, crystalExists, built, recVars,
                   near, nearest, toolVars>>

\* lines 539-584: reorder the ATOM records, reload, unwrap, rewrite <name>.pdb
ReorderUnwrap ==
    /\ pc = "reorder"
    /\ files' = files \cup {"pdb"}
    /\ pc' = "returned"
    /\ UNCHANGED <<nC, nO, nCa, nX, bonds, bonds0, ambiguous, pos, surf_norm, oi,
                   residC, residO, residCa, cond, warned, finalWritten,
                   dupCoords, crystalExists, built, recVars,
                   near, nearest, toolVars>>

\* create_pdb line 306: os.remove of the .cif; create_pdb returns
RemoveCif ==
    /\ pc = "returned"
    /\ files' = files \ {"cif"}
    /\ pc' = "ended"
    /\ UNCHANGED <<nC, nO, nCa, nX, bonds, bonds0, ambiguous, pos, surf_norm, oi,
                   residC, residO, residCa, cond, warned, finalWritten,
                   dupCoords, crystalExists, built, recVars,
                   near, nearest, toolVars>>

\* save_slabs line 289: the loop goes on to the next slab; the universe of the
\* finished structure is dropped and its files keep their own names
NextSlab ==
    /\ pc = "ended"
    /\ pc' = "loop"
    /\ nC' = 0 /\ nO' = 0 /\ nCa' = 0 /\ nX' = 0
    /\ bonds' = NoBonds /\ bonds0' = NoBonds /\ ambiguous' = FALSE
    /\ pos' = FilePos
    /\ surf_norm' = 0
    /\ oi' = 1
    /\ residC' = NoResidC /\ residO' = NoResidO /\ residCa' = NoResidCa
    /\ files' = {}
    /\ cond' = "none"
    /\ warned' = FALSE
    /\ finalWritten' = FALSE
    /\ dupCoords' = FALSE
    /\ UNCHANGED <<crystalExists, built, recVars,
                   near, nearest, toolVars>>

Next ==
    \/ StartRun
    \/ FileNotFound
    \/ BuildSlabs
    \/ RunDone
    \/ SaveSlab
    \/ CifToPdb
    \/ SetNames
    \/ UnknownAtomName
    \/ DetectOxygen
    \/ RefPlane
    \/ MissingReferencePlane
    \/ CompleteSkip
    \/ CompletePlace
    \/ CarbonWithZeroBonds
    \/ CompleteNoCarbon
    \/ CheckCarbons
    \/ BondCountMismatch
    \/ AssignResidues
    \/ ReadPositions
    \/ DuplicateCoordinates
    \/ CoordinatesUnique
    \/ Except
    \/ WriteFinal
    \/ ReorderUnwrap
    \/ RemoveCif
    \/ NextSlab

Spec == Init /\ [][Next]_vars

\* pdb_clean from the end of existing-bond detection (line 375) to the return
\* of create_pdb, for a structure without calcium: each oxygen has the one
\* carbon the detection loop bonded it to, or none; no query was ambiguous
InitCompletion ==
    /\ pc = "detect"
    /\ nC \in 0..MaxC /\ nO \in 0..MaxO /\ nCa = 0 /\ nX = 0
    /\ nC + nO <= MaxRecords
    /\ \E f \in [1..nO -> 0..nC] :
          /\ bonds = {<<o, f[o]>> : o \in {x \in 1..nO : f[x] # 0}}
          /\ near = IF nO > 0 /\ f[nO] # 0 THEN {f[nO]} ELSE {}
    /\ bonds0 = bonds
    /\ ambiguous = FALSE
    /\ pos = FilePos
    /\ surf_norm = 0
    /\ oi = nO + 1
    /\ residC = NoResidC /\ residO = NoResidO /\ residCa = NoResidCa
    /\ files = {"cif", "pdb"}
    /\ cond = "none"
    /\ warned = FALSE
    /\ finalWritten = FALSE
    /\ dupCoords = FALSE
    /\ crystalExists = TRUE
    /\ built = TRUE
    /\ lines = << >>
    /\ out = << >>
    /\ nearest = 0
    /\ ToolsIdle

NextCompletion ==
    \/ RefPlane
    \/ MissingReferencePlane
    \/ CompleteSkip
    \/ CompletePlace
    \/ CarbonWithZeroBonds
    \/ CompleteNoCarbon
    \/ CheckCarbons
    \/ BondCountMismatch
    \/ AssignResidues
    \/ ReadPositions
    \/ DuplicateCoordinates
    \/ CoordinatesUnique
    \/ Except
    \/ WriteFinal
    \/ ReorderUnwrap
    \/ RemoveCif

\* the interpreter goes on to the next statement as long as there is one
SpecCompletion == InitCompletion /\ [][NextCompletion]_vars /\ WF_vars(NextCompletion)

\* ------------------------------------------------------------------------
\* Properties

\* pdb_clean has returned to create_pdb (normally)
Returned == pc \in {"returned", "ended"}

\* the loop of lines 369-375 has run over every oxygen
DetectionDone ==
    \/ pc \in {"complete", "resid", "dup", "unique", "write", "reorder", "except",
               "returned", "ended"}
    \/ (pc = "detect" /\ oi = nO + 1)

\* the oxygens bonded to carbon c / the carbons bonded to oxygen o, in set b
OxygensOf(b, c) == {o \in Oxygens : <<o, c>> \in b}
CarbonsOf(b, o) == {c \in Carbons : <<o, c>> \in b}

\* C1: when the final, non-error output of a structure has been written,
\* every carbon of the structure has exactly 3 bonded oxygens.
C1_CarbonHasThreeOxygens ==
    finalWritten => \A c \in Carbons : Cardinality(OxygensOf(bonds, c)) = 3

\* a structure of two carbons, one of them completed by reconstruction, written
C1_Witness ==
    /\ finalWritten
    /\ nC = 2
    /\ \E o \in Oxygens : pos[o] # "file"

\* C2 (as claimed): when the final output has been written, every oxygen has
\* exactly 1 bonded carbon, whatever the number of free oxygens.
C2_OxygenHasOneCarbon ==
    finalWritten => \A o \in Oxygens : Cardinality(CarbonsOf(bonds, o)) = 1

\* the residue ids carried by the atoms of the structure
ResidSet ==
    {residC[c] : c \in Carbons} \cup {residO[o] : o \in Oxygens}
        \cup {residCa[k] : k \in Calciums}

\* the atoms carrying residue id r, as <<kind, index>>
ResidGroup(r) ==
    {<<"C", c>> : c \in {x \in Carbons : residC[x] = r}}
        \cup {<<"O", o>> : o \in {x \in Oxygens : residO[x] = r}}
        \cup {<<"CA", k>> : k \in {x \in Calciums : residCa[x] = r}}

\* C3 (as claimed): after residue assignment on a structure that does not
\* fail, the residue ids are exactly 1..R for some R, whatever the carbon and
\* calcium counts.
C3_ResidsContiguous ==
    finalWritten => \E R \in 0..(MaxC + MaxO + 2 * MaxCa) : ResidSet = 1..R

\* C4 (as claimed): after residue assignment on a structure that does not
\* fail, each residue id groups one carbon with its 3 bonded oxygens, or one
\* calcium, and nothing else.
C4_ResidGroups ==
    finalWritten =>
        \A r \in ResidSet :
            \/ \E c \in Carbons :
                  /\ Cardinality(OxygensOf(bonds, c)) = 3
                  /\ ResidGroup(r) = {<<"C", c>>} \cup {<<"O", o>> : o \in OxygensOf(bonds, c)}
            \/ \E k \in Calciums : ResidGroup(r) = {<<"CA", k>>}

\* C5 (as claimed): no fatal condition of a structure propagates out of the
\* batch: whenever one has arisen, the batch has not been aborted.
C5_ConditionConfined ==
    cond \notin {"none", "FileNotFoundError"} => pc # "aborted"

\* C6: when pdb_clean has returned after a caught condition, <name>.pdb is
\* removed, error_<name>.pdb is written and a warning was emitted; when it has
\* returned without one, <name>.pdb is written and no error_ file is; so
\* exactly one of the two files is there.
C6_OneOutput ==
    Returned =>
        /\ cond # "none" => ("pdb" \notin files /\ "error" \in files /\ warned /\ ~finalWritten)
        /\ cond = "none" => ("pdb" \in files /\ "error" \notin files /\ finalWritten)
        /\ ("pdb" \in files) # ("error" \in files)

\* pdb_clean has returned through the except block after a failed bond check
C6_Witness ==
    /\ pc = "returned"
    /\ cond = "BondCountMismatch"
    /\ "error" \in files

\* C7 (as claimed): once processing of a structure has ended, by success or by
\* failure at any stage, its .cif no longer exists.
C7_CifRemoved == pc \in {"ended", "aborted"} => "cif" \notin files

\* C8 (as claimed): a structure in which some oxygen has more than one carbon
\* within the cutoff fails; no final output is written for it.
C8_AmbiguityFails == ambiguous => ~finalWritten

\* C9: if no carbon has 3 bonds when detection is done, pdb_clean fails with
\* MissingReferencePlane on the failure path, with no oxygen moved and no
\* bond added since detection.
C9_MissingReferencePlane ==
    (/\ pc \in {"complete", "resid", "dup", "unique", "write", "reorder", "except",
                "returned", "ended"}
     /\ ~\E c \in Carbons : Cardinality(OxygensOf(bonds0, c)) = 3)
    => /\ cond = "MissingReferencePlane"
       /\ pc \in {"except", "returned", "ended"}
       /\ bonds = bonds0
       /\ \A o \in Oxygens : pos[o] = "file"
       /\ ~finalWritten

\* failed for lack of a reference plane although a free oxygen and a carbon
\* with 1 or 2 bonds were there to be joined
C9_Witness ==
    /\ pc = "returned"
    /\ cond = "MissingReferencePlane"
    /\ \E o \in Oxygens : CarbonsOf(bonds, o) = {}
    /\ \E c \in Carbons : Cardinality(OxygensOf(bonds0, c)) \in {1, 2}

\* the carbons left without any bond by detection
ZeroCarbons == {c \in Carbons : OxygensOf(bonds0, c) = {}}

\* C10: if some carbon has 0 bonds after detection, that carbon never gets a
\* bond, the structure never passes the bond check nor is written, the batch
\* is not aborted, and pdb_clean returns on the failure path with the
\* diagnostic artifact written.
C10_ZeroBondCarbonFails ==
    (DetectionDone /\ ZeroCarbons # {})
    => /\ \A c \in ZeroCarbons : OxygensOf(bonds, c) = {}
       /\ pc \notin {"resid", "dup", "unique", "write", "reorder", "aborted"}
       /\ ~finalWritten
       /\ Returned => (cond # "none" /\ "error" \in files)

\* the zero-bond carbon was met by a free oxygen in the completion loop
C10_Witness ==
    /\ pc = "ended"
    /\ cond = "CarbonWithZeroBonds"
    /\ ZeroCarbons # {}
    /\ "error" \in files

\* the loop of lines 407-467 has run over every oxygen without raising
CompletionDone ==
    \/ pc \in {"resid", "dup", "unique", "write", "reorder"}
    \/ (pc = "complete" /\ oi = nO + 1)
    \/ (pc \in {"except", "returned", "ended"}
        /\ cond \in {"BondCountMismatch", "DuplicateCoordinates", "none"})

\* C11 (as claimed): when the completion loop is over, free oxygens remain and
\* no carbon has fewer than 3 bonds, the structure ends with a fatal
\* condition: it is never taken on to residue assignment nor written.
C11_StalledReconstructionFails ==
    (/\ CompletionDone
     /\ \E o \in Oxygens : CarbonsOf(bonds, o) = {}
     /\ \A c \in Carbons : Cardinality(OxygensOf(bonds, c)) >= 3)
    => /\ pc \notin {"resid", "dup", "unique", "write", "reorder"}
       /\ ~finalWritten
       /\ Returned => cond # "none"

\* C12 (as claimed): a structure that has gone through residue assignment
\* without BondCountMismatch has 3 bonds on every carbon and 1 bond on every
\* oxygen (calciums carry no bond in any state: bonds join an oxygen and a
\* carbon).
C12_AssignmentChecksBondCounts ==
    (pc \in {"dup", "unique", "write", "reorder"} \/ (Returned /\ cond = "none"))
    => /\ \A c \in Carbons : Cardinality(OxygensOf(bonds, c)) = 3
       /\ \A o \in Oxygens : Cardinality(CarbonsOf(bonds, o)) = 1

\* C13: if two atoms have identical coordinates at the final check, the
\* structure is not written: pdb_clean raises DuplicateCoordinates and returns
\* on the failure path with the diagnostic artifact; so every structure that
\* is written had pairwise distinct positions at that check.
C13_DuplicateCoordinatesFail ==
    dupCoords
    => /\ pc \notin {"write", "reorder"}
       /\ ~finalWritten
       /\ Returned => (/\ cond = "DuplicateCoordinates"
                       /\ "error" \in files
                       /\ "pdb" \notin files)

\* a reconstructed structure with duplicate coordinates, failed at the check
C13_Witness ==
    /\ pc = "returned"
    /\ dupCoords
    /\ cond = "DuplicateCoordinates"
    /\ \E o \in Oxygens : pos[o] # "file"

\* C14: while a structure is processed, the only positions that change are
\* those of oxygens that have no bond and still have the position read from
\* the file; the step that moves such an oxygen bonds it, and no bond is ever
\* removed, so each is placed once and bonded oxygens are never moved.
\* (Positions of carbons and calciums are not assigned anywhere in the try
\* block and are no variables of the model.)
C14_OnlyFreeOxygensMove ==
    [][pc # "ended" =>
        /\ bonds \subseteq bonds'
        /\ \A o \in 1..MaxO :
              pos'[o] # pos[o] =>
                  /\ CarbonsOf(bonds, o) = {}
                  /\ pos[o] = "file"
                  /\ CarbonsOf(bonds', o) # {}]_vars

\* an oxygen has been placed next to oxygens that kept their file position
C14_Witness ==
    /\ pc = "complete"
    /\ \E o \in Oxygens : pos[o] = "rot"
    /\ \E o \in Oxygens : pos[o] = "sum"
    /\ \E o \in Oxygens : pos[o] = "file" /\ CarbonsOf(bonds, o) # {}

\* the carbons that have 3 bonds when detection is done
FullCarbons0 == {c \in Carbons : Cardinality(OxygensOf(bonds0, c)) = 3}

\* C15: a carbon that has 3 bonds after detection keeps exactly its three
\* oxygens, at their file positions, through the completion loop; and when
\* every carbon has 3 bonds after detection the loop adds no bond and moves
\* no oxygen, free oxygens or not.
C15_FullCarbonsUntouched ==
    DetectionDone
    => /\ \A c \in FullCarbons0 :
             /\ OxygensOf(bonds, c) = OxygensOf(bonds0, c)
             /\ \A o \in OxygensOf(bonds, c) : pos[o] = "file"
       /\ FullCarbons0 = Carbons
             => (bonds = bonds0 /\ \A o \in Oxygens : pos[o] = "file")

\* the completion loop has run over a complete carbon and two free oxygens
C15_Witness ==
    /\ pc = "complete"
    /\ oi = nO + 1
    /\ nC >= 1
    /\ Cardinality({o \in Oxygens : CarbonsOf(bonds, o) = {}}) = 2
    /\ FullCarbons0 = Carbons
    /\ \E o \in Oxygens : CarbonsOf(bonds, o) = {}

\* ------------------------------------------------------------------------
\* The reorder step of pdb_clean (lines 530-567) on the records of the file.
\* A line is <<tag, kind, index>>: an ATOM record of the atom <<kind, index>>,
\* or one of the lines the writer puts before and after the ATOM block.

HeaderLines == << <<"REMARK", "", 0>>, <<"CRYST1", "", 0>> >>
TrailerLines == << <<"CONECT", "", 0>>, <<"END", "", 0>> >>

\* the orders in which nc carbons, no oxygens and nk calciums can follow each
\* other in the atom group (each kind in ascending index)
KindOrders(nc, no, nk) ==
    {f \in [1..(nc + no + nk) -> {"C", "O", "CA"}] :
        /\ Cardinality({i \in DOMAIN f : f[i] = "C"}) = nc
        /\ Cardinality({i \in DOMAIN f : f[i] = "O"}) = no}

\* lines 531-537: one ATOM record per atom, in the order of the atom group
AtomRecords(f) ==
    [i \in DOMAIN f |->
        <<"ATOM", f[i], Cardinality({j \in 1..i : f[j] = f[i]})>>]

\* line 554: int(lines[i][22:26]), the residue id written for the atom
ResidOf(rec) ==
    CASE rec[2] = "C" -> residC[rec[3]]
      [] rec[2] = "O" -> residO[rec[3]]
      [] rec[2] = "CA" -> residCa[rec[3]]
      [] OTHER -> FileResid

\* lines 544-549: the indices of the lines that start with ATOM
AtomLines(ls) == {i \in DOMAIN ls : ls[i][1] = "ATOM"}

\* the sequences that list every index of S once, in non-decreasing order of
\* key: the results np.argsort(key) can give (the default kind, quicksort, is
\* not stable: indices of equal keys come out in an unspecified order)
RECURSIVE ArgSorts(_, _)
ArgSorts(key, S) ==
    IF S = {} THEN { << >> }
    ELSE LET least == {i \in S : \A j \in S : key[i] <= key[j]}
         IN  UNION {{<<i>> \o rest : rest \in ArgSorts(key, S \ {i})} : i \in least}

\* lines 551-558: resids of the lines first..last, and the orders argsort can
\* put them in (as offsets from the first ATOM line)
SortOrders(ls) ==
    LET first == Min(AtomLines(ls))
        last == Max(AtomLines(ls))
        key == [k \in 1..(last - first + 1) |-> ResidOf(ls[first + k - 1])]
    IN  ArgSorts(key, DOMAIN key)

\* Rewritten without lines 565-567: the lines after the last ATOM line are
\* not written back
RewrittenNoTail(ls, p) ==
    LET first == Min(AtomLines(ls))
    IN  SubSeq(ls, 1, first - 1) \o [k \in 1..Len(p) |-> ls[first + p[k] - 1]]

\* lines 557-567: the file rewritten with the ATOM lines taken in order p
Rewritten(ls, p) ==
    LET first == Min(AtomLines(ls))
        last == Max(AtomLines(ls))
    IN  SubSeq(ls, 1, first - 1)
            \o [k \in 1..Len(p) |-> ls[first + p[k] - 1]]
            \o SubSeq(ls, last + 1, Len(ls))

\* the structures the reorder step is given: every carbon has its 3 oxygens
\* (oxygens 3c-2..3c on carbon c) and there is no other oxygen, residues are
\* assigned, the try block has ended
InitReorder ==
    /\ pc = "write"
    /\ nC \in 1..MaxC /\ nO \in 0..MaxO /\ nCa \in 0..MaxCa /\ nX = 0
    /\ nO = NFull * nC
    /\ nC + nO + nCa <= MaxRecords
    /\ bonds = {<<o, c>> \in (1..MaxO) \X (1..MaxC) :
                   c <= nC /\ NFull * (c - 1) < o /\ o <= NFull * c}
    /\ bonds0 = bonds /\ ambiguous = FALSE
    /\ pos = FilePos
    /\ surf_norm = 1
    /\ oi = nO + 1
    /\ residC = [c \in 1..MaxC |-> IF c <= nC THEN CarbonResid(c) ELSE FileResid]
    /\ residO = [o \in 1..MaxO |-> IF o <= NFull * nC
                                   THEN CarbonResid(((o - 1) \div NFull) + 1)
                                   ELSE FileResid]
    /\ residCa = [k \in 1..MaxCa |-> IF k <= nCa THEN CalciumResid(k) ELSE FileResid]
    /\ files = {"cif", "pdb"}
    /\ cond = "none"
    /\ warned = FALSE
    /\ finalWritten = FALSE
    /\ dupCoords = FALSE
    /\ crystalExists = TRUE
    /\ built = TRUE
    /\ lines = << >>
    /\ out = << >>
    /\ near = {}
    /\ nearest = 0
    /\ ToolsIdle

\* lines 530-541: the structure is written in the order of the atom group and
\* the lines of the file are read back
WriteRecords ==
    /\ pc = "write"
    /\ \E f \in KindOrders(nC, nO, nCa) :
          lines' = HeaderLines \o AtomRecords(f) \o TrailerLines
    /\ finalWritten' = TRUE
    /\ files' = files \cup {"pdb"}
    /\ pc' = "reorder"
    /\ UNCHANGED <<nC, nO, nCa, nX, bonds, bonds0, ambiguous, pos, surf_norm, oi,
                   residC, residO, residCa, cond, warned,
                   dupCoords, crystalExists, built, out,
                   near, nearest, toolVars>>

\* lines 543-567: the ATOM lines are rewritten in the order of argsort(resids)
Reorder ==
    /\ pc = "reorder"
    /\ \E p \in SortOrders(lines) : out' = Rewritten(lines, p)
    /\ pc' = "reordered"
    /\ UNCHANGED <<nC, nO, nCa, nX, bonds, bonds0, ambiguous, pos, surf_norm, oi,
                   residC, residO, residCa, files, cond, warned, finalWritten,
                   dupCoords, crystalExists, built, lines,
                   near, nearest, toolVars>>

NextReorder == WriteRecords \/ Reorder

SpecReorder == InitReorder /\ [][NextReorder]_vars

\* the place of line l in the sequence s
Place(s, l) == CHOOSE i \in DOMAIN s : s[i] = l

\* C16 (as claimed): the reorder step is stable: two ATOM records with the
\* same residue id are in the same relative order after it as before.
C16_SortStable ==
    pc = "reordered" =>
        \A i, j \in AtomLines(lines) :
            (i < j /\ ResidOf(lines[i]) = ResidOf(lines[j]))
                => Place(out, lines[i]) < Place(out, lines[j])

\* the ATOM records of the output, in file order
OutAtoms == SelectSeq(out, LAMBDA l : l[1] = "ATOM")

\* the places in OutAtoms of the atoms of carbonate c and of calcium k
CarbonatePlaces(c) ==
    {i \in DOMAIN OutAtoms :
        \/ OutAtoms[i] = <<"ATOM", "C", c>>
        \/ /\ OutAtoms[i][2] = "O"
           /\ <<OutAtoms[i][3], c>> \in bonds}
CalciumPlaces(k) == {i \in DOMAIN OutAtoms : OutAtoms[i] = <<"ATOM", "CA", k>>}

Consecutive(S) == \A i \in DOMAIN OutAtoms :
                      (\E a, b \in S : a <= i /\ i <= b) => i \in S

\* C17 (as claimed): in the final output the ATOM records are in
\* non-decreasing order of residue id, and the atoms of each residue (a
\* carbonate, a calcium) are consecutive.
C17_OutputGrouped ==
    pc = "reordered" =>
        /\ \A i \in 1..(Len(OutAtoms) - 1) :
              ResidOf(OutAtoms[i]) <= ResidOf(OutAtoms[i + 1])
        /\ \A c \in Carbons : Consecutive(CarbonatePlaces(c))
        /\ \A k \in Calciums : Consecutive(CalciumPlaces(k))

\* C18 (as claimed): residue assignment draws all ids from one increasing
\* sequence: carbonates get ascending ids in carbon order, every calcium id
\* is greater than every carbonate id, and no two residues share an id.
C18_OneIdSequence ==
    pc = "dup" =>
        /\ \A c, d \in Carbons : c < d => residC[c] < residC[d]
        /\ \A k, l \in Calciums : k < l => residCa[k] < residCa[l]
        /\ \A c \in Carbons : \A k \in Calciums : residC[c] < residCa[k]

\* C19 (as claimed): when the crystal file does not exist, run fails before
\* anything is built or written and without a diagnostic artifact, and the
\* failure ends only the run of that combination: main is not aborted.
C19_MissingFileEndsRunOnly ==
    cond = "FileNotFoundError" =>
        /\ ~built
        /\ files = {}
        /\ ~warned
        /\ pc # "aborted"

\* C19 (amended): when the crystal file does not exist, run fails with
\* FileNotFoundError before anything is built or written and without a
\* diagnostic artifact or warning; the exception is not caught and ends main,
\* so no later combination is processed.
C19_MissingFileEndsMain ==
    /\ (~crystalExists /\ pc # "run") => cond = "FileNotFoundError"
    /\ cond = "FileNotFoundError" =>
          /\ ~crystalExists
          /\ ~built
          /\ files = {}
          /\ ~warned
          /\ ~finalWritten
          /\ pc = "aborted"

C19_Witness ==
    /\ ~crystalExists
    /\ cond = "FileNotFoundError"
    /\ pc = "aborted"

\* ------------------------------------------------------------------------
\* TwoSlabIdxGenerator (src/python/twoslab_index.py): generate() on an index
\* file with the groups System, Crystal and SOL.

\* bounds: atoms of the system, atoms of the Crystal group, largest index
\* found in the input index file
MaxAtoms == 3
MaxCrystal == 2
MaxIndex == 4

Groups == {"System", "Crystal", "SOL"}

\* line 159: any(p in key for p in patterns); of the groups here, System and
\* Crystal hold a pattern, SOL does not
MatchesPattern(key) == key \in {"System", "Crystal"}

\* line 130: i + offset if i > min_index else i
Shift(i, min_index, offset) == IF i > min_index THEN i + offset ELSE i

\* lines 130-131: the updated group
UpdatedGroup(value, min_index, offset) ==
    [k \in DOMAIN value |-> Shift(value[k], min_index, offset)]

\* lines 160-162: the indices of the second slab for a group
GroupNew(value, min_index) ==
    LET first == SelectSeq(value, LAMBDA i : i <= min_index)
    IN  [k \in DOMAIN first |-> first[k] + min_index]

\* lines 159-164: the group with the second slab appended
AddedGroup(key, value, min_index) ==
    IF MatchesPattern(key) /\ Len(GroupNew(value, min_index)) > 0
    THEN value \o GroupNew(value, min_index)
    ELSE value

\* _sort without the call of np.sort
UnsortedGroup(value) == value

\* line 182: np.sort(value)
SortedGroup(value) == SortSeq(value, LAMBDA a, b : a < b)

\* the state after the constructor (lines 74-92) returned: System has n_atoms
\* indices, n_crystal_atoms is the length of Crystal; SOL holds the indices of
\* System that are not in Crystal
InitIdx ==
    /\ pc = "idx_new"
    /\ n_atoms \in 0..MaxAtoms
    /\ n_crystal_atoms \in 0..MaxCrystal
    /\ \E sys \in [1..n_atoms -> 1..MaxIndex],
          cry \in [1..n_crystal_atoms -> 1..MaxIndex] :
          ndx0 = [g \in Groups |->
                    CASE g = "System" -> sys
                      [] g = "Crystal" -> cry
                      [] OTHER -> SelectSeq(sys,
                                    LAMBDA i : \A k \in DOMAIN cry : cry[k] # i)]
    /\ ndx = ndx0
    /\ nC = 0 /\ nO = 0 /\ nCa = 0 /\ nX = 0
    /\ bonds = NoBonds /\ bonds0 = NoBonds /\ ambiguous = FALSE
    /\ pos = FilePos
    /\ surf_norm = 0
    /\ oi = 1
    /\ residC = NoResidC /\ residO = NoResidO /\ residCa = NoResidCa
    /\ files = {}
    /\ cond = "none"
    /\ warned = FALSE
    /\ finalWritten = FALSE
    /\ dupCoords = FALSE
    /\ crystalExists = TRUE
    /\ built = FALSE
    /\ lines = << >>
    /\ out = << >>
    /\ near = {}
    /\ nearest = 0
    /\ n_replica = 0 /\ line = << >> /\ lst_complete = << >>

\* generate line 195, _update_original_index(n_crystal_atoms,
\* n_crystal_atoms), lines 129-144
UpdateOriginalIndex ==
    /\ pc = "idx_new"
    /\ ndx' = [g \in Groups |->
                 UpdatedGroup(ndx[g], n_crystal_atoms, n_crystal_atoms)]
    /\ IF n_atoms # Len(ndx'["System"])
       THEN cond' = "ValueError" /\ pc' = "idx_raised"
       ELSE cond' = cond /\ pc' = "idx_updated"
    /\ UNCHANGED <<nC, nO, nCa, nX, bonds, bonds0, ambiguous, pos, surf_norm, oi,
                   residC, residO, residCa, files, warned, finalWritten,
                   dupCoords, crystalExists, built, recVars, near, nearest,
                   ndx0, n_atoms, n_crystal_atoms, logVars>>

\* generate line 196, _add_second_slab(n_crystal_atoms), lines 157-175
AddSecondSlab ==
    /\ pc = "idx_updated"
    /\ ndx' = [g \in Groups |-> AddedGroup(g, ndx[g], n_crystal_atoms)]
    /\ IF n_atoms + n_crystal_atoms # Len(ndx'["System"])
       THEN cond' = "ValueError" /\ pc' = "idx_raised"
       ELSE cond' = cond /\ pc' = "idx_added"
    /\ UNCHANGED <<nC, nO, nCa, nX, bonds, bonds0, ambiguous, pos, surf_norm, oi,
                   residC, residO, residCa, files, warned, finalWritten,
                   dupCoords, crystalExists, built, recVars, near, nearest,
                   ndx0, n_atoms, n_crystal_atoms, logVars>>

\* generate line 197, _sort, lines 181-182
SortGroups ==
    /\ pc = "idx_added"
    /\ ndx' = [g \in Groups |-> SortedGroup(ndx[g])]
    /\ pc' = "idx_sorted"
    /\ UNCHANGED <<nC, nO, nCa, nX, bonds, bonds0, ambiguous, pos, surf_norm, oi,
                   residC, residO, residCa, files, cond, warned, finalWritten,
                   dupCoords, crystalExists, built, recVars, near, nearest,
                   ndx0, n_atoms, n_crystal_atoms, logVars>>

\* generate line 198, save, line 207: the groups are written as they are
SaveIdx ==
    /\ pc = "idx_sorted"
    /\ files' = files \cup {"ndx"}
    /\ pc' = "idx_saved"
    /\ UNCHANGED <<nC, nO, nCa, nX, bonds, bonds0, ambiguous, pos, surf_norm, oi,
                   residC, residO, residCa, cond, warned, finalWritten,
                   dupCoords, crystalExists, built, recVars, near, nearest,
                   toolVars>>

NextIdx == UpdateOriginalIndex \/ AddSecondSlab \/ SortGroups \/ SaveIdx

SpecIdx == InitIdx /\ [][NextIdx]_vars

\* the sequence 1, 2, ..., n
UpTo(n) == [k \in 1..n |-> k]

\* s lists every element of 1..n once
IsPermutationOf(s, n) == Len(s) = n /\ {s[k] : k \in DOMAIN s} = 1..n

\* C21: generate either raises ValueError or ends, after update, add, sort
\* and save in that order, with a System group of n_atoms + n_crystal_atoms
\* indices in ascending order; when System was 1..n_atoms and Crystal
\* 1..n_crystal_atoms, the System group it leaves is exactly
\* 1..n_atoms+n_crystal_atoms, each index once.
C21_GenerateSystemGroup ==
    /\ pc = "idx_raised" => (cond = "ValueError" /\ "ndx" \notin files)
    /\ pc \in {"idx_new", "idx_updated", "idx_added", "idx_sorted"}
           => "ndx" \notin files
    /\ pc \in {"idx_sorted", "idx_saved"} =>
          /\ Len(ndx["System"]) = n_atoms + n_crystal_atoms
          /\ \A k \in 1..(Len(ndx["System"]) - 1) :
                ndx["System"][k] <= ndx["System"][k + 1]
          /\ (/\ IsPermutationOf(ndx0["System"], n_atoms)
              /\ IsPermutationOf(ndx0["Crystal"], n_crystal_atoms))
                => ndx["System"] = UpTo(n_atoms + n_crystal_atoms)
    /\ pc = "idx_saved" => "ndx" \in files

C21_Witness ==
    /\ pc = "idx_saved"
    /\ ndx0["System"] = <<1, 2, 3>>
    /\ ndx0["Crystal"] = <<2, 1>>
    /\ ndx["System"] = <<1, 2, 3, 4, 5>>

\* ------------------------------------------------------------------------
\* ParseGmxLog._parse_repl_pr (src/python/probability_exchange.py). A
\* probability is written as an integer; a list entry is <<"val", x>> for the
\* float x or <<"nan", 0>> for np.nan.

\* bounds: fields of a line, largest probability value, replicas
MaxFields == 3
MaxProb == 1
MaxReplica == 8

NaN == <<"nan", 0>>

\* lines 152-158: letters removed, the line stripped, runs of whitespace
\* turned into commas, split at the commas. A line with no field left is the
\* empty string, which split turns into one empty field.
SplitFields(l) ==
    IF Len(l) = 0 THEN << <<"empty", 0>> >>
    ELSE [k \in DOMAIN l |-> <<"num", l[k]>>]

\* lines 159-163: float(val); -1 when float raises ValueError
ToFloat(val) == IF val[1] = "num" THEN val[2] ELSE -1

\* lines 158-163: warnings.warn is called for some field
WarnsOn(fs) == \E k \in DOMAIN fs : fs[k][1] # "num"

\* lines 166-167: the floats with np.nan after each, the last np.nan dropped
Interleaved(fl) ==
    [i \in 1..(2 * Len(fl) - 1) |->
        IF i % 2 = 1 THEN <<"val", fl[(i + 1) \div 2]>> ELSE NaN]

\* a line of up to MaxFields probabilities is given to _parse_repl_pr of a
\* parser that found n_replica replicas
InitLog ==
    /\ pc = "pr_new"
    /\ n_replica \in 1..MaxReplica
    /\ \E k \in 0..MaxFields : line \in [1..k -> 0..MaxProb]
    /\ lst_complete = << >>
    /\ nC = 0 /\ nO = 0 /\ nCa = 0 /\ nX = 0
    /\ bonds = NoBonds /\ bonds0 = NoBonds /\ ambiguous = FALSE
    /\ pos = FilePos
    /\ surf_norm = 0
    /\ oi = 1
    /\ residC = NoResidC /\ residO = NoResidO /\ residCa = NoResidCa
    /\ files = {}
    /\ cond = "none"
    /\ warned = FALSE
    /\ finalWritten = FALSE
    /\ dupCoords = FALSE
    /\ crystalExists = TRUE
    /\ built = FALSE
    /\ lines = << >>
    /\ out = << >>
    /\ near = {}
    /\ nearest = 0
    /\ ndx = NoGroups /\ ndx0 = NoGroups
    /\ n_atoms = 0 /\ n_crystal_atoms = 0

\* lines 152-167: the fields are converted and interleaved with np.nan
ParseFields ==
    /\ pc = "pr_new"
    /\ lst_complete' =
          Interleaved([k \in DOMAIN SplitFields(line) |->
                          ToFloat(SplitFields(line)[k])])
    /\ warned' = WarnsOn(SplitFields(line))
    /\ pc' = "pr_listed"
    /\ UNCHANGED <<nC, nO, nCa, nX, bonds, bonds0, ambiguous, pos, surf_norm, oi,
                   residC, residO, residCa, files, cond, finalWritten,
                   dupCoords, crystalExists, built, recVars, near, nearest,
                   idxVars, n_replica, line>>

\* lines 170-171: the list has another length than n_replica - 1
PadEnds ==
    /\ pc = "pr_listed"
    /\ Len(lst_complete) # n_replica - 1
    /\ lst_complete' = <<NaN>> \o lst_complete \o <<NaN>>
    /\ pc' = "pr_checked"
    /\ UNCHANGED <<nC, nO, nCa, nX, bonds, bonds0, ambiguous, pos, surf_norm, oi,
                   residC, residO, residCa, files, cond, warned, finalWritten,
                   dupCoords, crystalExists, built, recVars, near, nearest,
                   idxVars, n_replica, line>>

\* line 170: the list has the length n_replica - 1 already
KeepList ==
    /\ pc = "pr_listed"
    /\ Len(lst_complete) = n_replica - 1
    /\ pc' = "pr_checked"
    /\ UNCHANGED <<nC, nO, nCa, nX, bonds, bonds0, ambiguous, pos, surf_norm, oi,
                   residC, residO, residCa, files, cond, warned, finalWritten,
                   dupCoords, crystalExists, built, recVars, near, nearest,
                   toolVars>>

\* lines 174-177: ValueError
RaiseLength ==
    /\ pc = "pr_checked"
    /\ Len(lst_complete) # n_replica - 1
    /\ cond' = "ValueError"
    /\ pc' = "pr_raised"
    /\ UNCHANGED <<nC, nO, nCa, nX, bonds, bonds0, ambiguous, pos, surf_norm, oi,
                   residC, residO, residCa, files, warned, finalWritten,
                   dupCoords, crystalExists, built, recVars, near, nearest,
                   toolVars>>

\* line 179: the list is returned
ReturnList ==
    /\ pc = "pr_checked"
    /\ Len(lst_complete) = n_replica - 1
    /\ pc' = "pr_returned"
    /\ UNCHANGED <<nC, nO, nCa, nX, bonds, bonds0, ambiguous, pos, surf_norm, oi,
                   residC, residO, residCa, files, cond, warned, finalWritten,
                   dupCoords, crystalExists, built, recVars, near, nearest,
                   toolVars>>

NextLog == ParseFields \/ PadEnds \/ KeepList \/ RaiseLength \/ ReturnList

SpecLog == InitLog /\ [][NextLog]_vars

\* the k values of l at the odd places of a list of 2k-1 entries / at the
\* even places of a list of 2k+1 entries, np.nan at the other places
ValuesFromStart(l) ==
    [i \in 1..(2 * Len(l) - 1) |->
        IF i % 2 = 1 THEN <<"val", l[(i + 1) \div 2]>> ELSE NaN]
ValuesFromSecond(l) ==
    [i \in 1..(2 * Len(l) + 1) |->
        IF i % 2 = 0 THEN <<"val", l[i \div 2]>> ELSE NaN]

\* C22 (as claimed): for a line of k values _parse_repl_pr returns n_replica-1
\* entries, the k values in order at every other place from the first place
\* (2k-1 = n_replica-1) or from the second (2k+1 = n_replica-1) and np.nan
\* elsewhere, or raises ValueError when k fits neither; no other list is
\* returned.
C22_ParseReplPr ==
    /\ pc = "pr_returned" =>
          /\ Len(lst_complete) = n_replica - 1
          /\ \/ /\ 2 * Len(line) - 1 = n_replica - 1
                /\ lst_complete = ValuesFromStart(line)
             \/ /\ 2 * Len(line) + 1 = n_replica - 1
                /\ lst_complete = ValuesFromSecond(line)
    /\ pc = "pr_raised" =>
          /\ 2 * Len(line) - 1 # n_replica - 1
          /\ 2 * Len(line) + 1 # n_replica - 1

\* C23: a step of existing-bond detection bonds the oxygen it is at to carbon
\* c exactly when c is the only carbon the "around 1.3" query returned; an
\* oxygen with no carbon within the cutoff gets no bond and stays free; the
\* step changes no other bond and moves no atom.
C23_DetectionBondsOnlyCarbon ==
    [][(pc = "detect" /\ oi <= nO) =>
          /\ \A c \in Carbons : (<<oi, c>> \in bonds') <=> (near' = {c})
          /\ near' = {} => CarbonsOf(bonds', oi) = {}
          /\ bonds \subseteq bonds'
          /\ \A b \in bonds' \ bonds : b[1] = oi
          /\ pos' = pos]_vars

C23_Witness ==
    /\ pc = "detect"
    /\ oi = 3
    /\ nC = 2
    /\ near = {}
    /\ bonds = {<<1, 2>>}
    /\ CarbonsOf(bonds, 2) = {}
    /\ pos = FilePos

\* the number of oxygens bonded to carbon c under bond set b
BondCount(b, c) == Cardinality(OxygensOf(b, c))

\* C24: a step of the completion loop adds at most one bond; the bond it adds
\* joins the oxygen the loop is at, which had no bond, to one carbon that had
\* 1 or 2 bonds, and raises that carbon's count by one; no bond is added to a
\* carbon that has 3 bonds, and no carbon's count goes above 3 in the loop.
C24_OneBondPerStep ==
    [][pc = "complete" =>
          /\ bonds \subseteq bonds'
          /\ Cardinality(bonds' \ bonds) <= 1
          /\ \A b \in bonds' \ bonds :
                /\ b[1] = oi
                /\ CarbonsOf(bonds, oi) = {}
                /\ CarbonsOf(bonds', oi) = {b[2]}
                /\ BondCount(bonds, b[2]) \in {1, 2}
                /\ BondCount(bonds', b[2]) = BondCount(bonds, b[2]) + 1
          /\ \A c \in Carbons :
                BondCount(bonds', c) > NFull
                    => BondCount(bonds', c) = BondCount(bonds, c)]_vars

C24_Witness ==
    /\ pc = "complete"
    /\ \E o, p \in Oxygens :
          /\ pos[o] = "rot" /\ pos[p] = "sum"
          /\ CarbonsOf(bonds, o) = CarbonsOf(bonds, p)
          /\ \A c \in CarbonsOf(bonds, o) : BondCount(bonds, c) = NFull

\* C25 (as claimed): the carbon a free oxygen is attached to in the
\* completion loop is, of the carbons with fewer than 3 bonds, the one
\* nearest to that oxygen.
C25_AttachedToNearest ==
    [][pc = "complete" =>
          \A b \in bonds' \ bonds : b[2] = nearest']_vars

\* C26: through the completion loop the reference normal is the one taken
\* from the lowest carbon that had 3 bonds when detection finished; no step
\* of the loop changes it, whichever carbons reach 3 bonds; and the bond a
\* step adds is fixed by the bonds and the atom order alone (the first carbon
\* in index order with fewer than 3 bonds).
C26_ReferenceNormalFixed ==
    [][pc = "complete" =>
          /\ FullCarbons0 # {}
          /\ surf_norm = Min(FullCarbons0)
          /\ surf_norm' = surf_norm
          /\ \A b \in bonds' \ bonds :
                b = <<oi, Min({c \in Carbons : BondCount(bonds, c) < NFull})>>]_vars

C26_Witness ==
    /\ pc = "complete"
    /\ surf_norm = 2
    /\ BondCount(bonds0, 1) = 1
    /\ BondCount(bonds, 1) = NFull
    /\ \E o \in Oxygens : pos[o] = "rot" /\ <<o, 1>> \in bonds

\* C27: in every state of bond inference each bond joins an oxygen of the
\* structure to a carbon of the structure (so none ends at a calcium), and an
\* oxygen has at most one bond.
C27_BondsWellFormed ==
    /\ \A b \in bonds : b[1] \in Oxygens /\ b[2] \in Carbons
    /\ \A o \in Oxygens : Cardinality(CarbonsOf(bonds, o)) <= 1

C27_Witness ==
    /\ pc = "complete"
    /\ oi = nO + 1
    /\ nCa >= 1
    /\ nC >= 2
    /\ bonds # bonds0
    /\ bonds0 # {}

\* the oxygens that were free when detection finished
FreeOxygens0 == {o \in Oxygens : CarbonsOf(bonds0, o) = {}}

\* the carbons that have got some bond from the completion loop but do not
\* have 3 bonds yet
PartlyReconstructed ==
    {c \in Carbons : /\ BondCount(bonds, c) > BondCount(bonds0, c)
                     /\ BondCount(bonds, c) < NFull}

\* C28: the completion loop fills the carbons in ascending index order: no
\* step attaches an oxygen to carbon j while a carbon i < j has fewer than 3
\* bonds; at most one carbon is partly reconstructed at any moment; and a
\* carbon that had 1 bond after detection and has 3 now got its second bond
\* by the rotation rule and its third by the two-bond rule, from two free
\* oxygens with no free oxygen between them.
C28_AscendingFill ==
    [][pc = "complete" =>
          /\ \A b \in bonds' \ bonds :
                \A i \in Carbons : i < b[2] => BondCount(bonds, i) >= NFull
          /\ Cardinality(PartlyReconstructed) <= 1
          /\ \A c \in Carbons :
                (BondCount(bonds0, c) = 1 /\ BondCount(bonds, c) = NFull) =>
                    \E o, p \in OxygensOf(bonds, c) \cap FreeOxygens0 :
                        /\ o < p
                        /\ pos[o] = "rot"
                        /\ pos[p] = "sum"
                        /\ \A q \in FreeOxygens0 : ~(o < q /\ q < p)]_vars

C28_Witness ==
    /\ pc = "complete"
    /\ \E c, d \in Carbons :
          /\ c < d
          /\ BondCount(bonds0, c) = 1 /\ BondCount(bonds0, d) = 1
          /\ BondCount(bonds, c) = 2 /\ BondCount(bonds, d) = 1

\* the bonds missing on the carbons when detection finished: the sum over the
\* carbons of 3 minus the bond count
MissingBonds0 == NFull * nC - Cardinality(bonds0)

FewerFreeThanMissing == Cardinality(FreeOxygens0) < MissingBonds0

\* C29: when detection leaves fewer free oxygens than carbon bonds are
\* missing, the structure never passes the bond check and pdb_clean returns
\* on the failure path; the completion loop is one pass over the oxygens, one
\* oxygen per step; when every carbon has 1 to 3 bonds after detection, the
\* loop adds min(free oxygens, missing bonds) bonds; and every run from the
\* end of detection gets through the loop and to the end of create_pdb.
C29_CompletionBounded ==
    /\ []((DetectionDone /\ FewerFreeThanMissing) =>
             /\ pc \notin {"resid", "dup", "unique", "write", "reorder"}
             /\ ~finalWritten
             /\ Returned => "error" \in files)
    /\ []((/\ pc = "complete"
           /\ oi = nO + 1
           /\ \A c \in Carbons : BondCount(bonds0, c) \in 1..NFull) =>
             Cardinality(bonds \ bonds0)
                 = Min({Cardinality(FreeOxygens0), MissingBonds0}))
    /\ [][(pc = "complete" /\ pc' = "complete") =>
             (oi' = oi + 1 /\ oi' <= nO + 1)]_vars
    /\ <>(pc = "ended")

C29_Witness ==
    /\ pc = "returned"
    /\ "error" \in files
    /\ cond = "BondCountMismatch"
    /\ FewerFreeThanMissing
    /\ bonds # bonds0
    /\ \A c \in Carbons : BondCount(bonds0, c) \in 1..NFull
    /\ Cardinality(bonds \ bonds0) = Cardinality(FreeOxygens0)

\* how many times line l is in the sequence s
Count(s, l) == Cardinality({i \in DOMAIN s : s[i] = l})

\* C30: when the ATOM records of the written file are one block, the
\* rewritten file has the same lines as the written one, each as often as
\* before, and every line before the first and after the last ATOM record is
\* at its old place.
C30_ReorderPermutesAtoms ==
    pc = "reordered" =>
        LET atoms == AtomLines(lines)
        IN  atoms = Min(atoms)..Max(atoms) =>
                /\ Len(out) = Len(lines)
                /\ \A i \in DOMAIN lines \ atoms : out[i] = lines[i]
                /\ AtomLines(out) = atoms
                /\ \A i \in atoms : Count(out, lines[i]) = Count(lines, lines[i])

C30_Witness ==
    /\ pc = "reordered"
    /\ out # lines
    /\ Len(out) = Len(lines)
    /\ nC = 2 /\ nCa = 1
    /\ lines[3] = <<"ATOM", "CA", 1>>
    /\ out[3] # lines[3]
====
